---- MODULE Spec2Model ----
(***************************************************************************)
(* Model of the admission-control limiters (app/core/rate_limiter.py,      *)
(* app/api/deps.py), of the MCP tool client (app/mcp/client.py), of the    *)
(* request signing of app/core/security.py and of the chat handler         *)
(* send_message (app/api/v1/chat.py).                                      *)
(*                                                                         *)
(* Time is counted in whole seconds.  Every coroutine is cut at its        *)
(* awaits: one action per operation executed by the Redis server or by the *)
(* HTTP peer, together with the local computation that consumes its        *)
(* result.  A call takes its timestamp in the step that starts it, so time *)
(* can pass between time.time() and the pipeline that uses the value.      *)
(***************************************************************************)
EXTENDS Integers, Sequences, FiniteSets, TLC

\* ---------------------------------------------------------------- bounds
NumProcs == 3
MaxLimit == 2
MaxAdvances == 2
MaxCapacity == 2
MaxPeriod == 2
NumRequests == 2
MaxGateAdvances == 1
MaxTools == 2

\* ------------------------------------------------------------- constants
WINDOW_MINUTE == 60
WINDOW_HOUR == 3600
BUCKET_TTL == 3600
RATE_LIMIT_BURST_SIZE == 10
RATE_LIMIT_TOOL_PER_MINUTE == 30
MCP_DEFAULT_TIMEOUT == 30
MCP_MAX_RETRIES == 3
MCP_RETRY_DELAY == 1

Procs == 1..NumProcs
None == "none"
TimeSteps == {1, WINDOW_MINUTE, WINDOW_HOUR}
BucketSteps == {1, BUCKET_TTL}
DirectWindows == {1, WINDOW_MINUTE}
DirectKey == "ratelimit:direct"
Ips == {"10.0.0.1"}
Users == {"u1"}
IpKey(ip, w) == "ratelimit:ip:" \o ip \o ":" \o w
UserKey(user_id, w) == "ratelimit:user:" \o user_id \o ":" \o w
LimiterKeys ==
  {DirectKey} \cup {IpKey(ip, w) : ip \in Ips, w \in {"minute", "hour"}}
              \cup {UserKey(u, w) : u \in Users, w \in {"minute", "hour"}}

VARIABLES
  clock,      \* time.time(), in seconds
  advances,   \* number of clock advances so far (bounds the run)
  zset,       \* Redis sorted sets: key -> set of [member, score]
  zexpire,    \* Redis key expiry: key -> {absolute time}, {} without one
  direct,     \* arguments of the direct is_allowed calls: [limit, window]
  call,       \* per coroutine: the is_allowed call it is executing
  touched,    \* per coroutine: the keys its pipelines ran on, with verdicts
              \* and timestamps
  settings,   \* the RATE_LIMIT_* settings read by the gate
  req,        \* per request: the state of check_rate_limit
  bucket,     \* Redis keys bucket:{key}, bucket:{key}:last and their expiry
  tbcfg,      \* arguments of the consume calls: [capacity, period]
  cons,       \* per coroutine: the consume call it is executing
  inv,        \* the invoke_tool call
  disc,       \* the discover_tools call
  connected,  \* whether redis_manager holds a connection to the store
  sgn,        \* a request signed by sign_request and shown to verify_signature
  chat        \* the send_message handler of one chat request

timeVars == <<clock, advances>>
limiterVars == <<zset, zexpire, direct, call, touched>>
gateVars == <<settings, req, connected>>
bucketVars == <<bucket, tbcfg, cons>>
clientVars == <<inv, disc>>
appVars == <<sgn, chat>>

Max(a, b) == IF a >= b THEN a ELSE b
Min(a, b) == IF a <= b THEN a ELSE b

\* ------------------------------------------------- Redis sorted-set ops
\* str(now): the member name is the printed timestamp
Str(t) == ToString(t)

ZRemRangeByScore(z, lo, hi) == {e \in z : ~(lo <= e.score /\ e.score <= hi)}

ZCard(z) == Cardinality(z)

ZAdd(z, member, score) ==
  {e \in z : e.member # member} \cup {[member |-> member, score |-> score]}

ZRem(z, member) == {e \in z : e.member # member}

\* ------------------------------------------------------------ is_allowed
IdleCall ==
  [pc |-> "idle", stage |-> None, key |-> None, limit |-> 0, window |-> 0,
   now |-> 0, count |-> 0, allowed |-> FALSE,
   info |-> [limit |-> 0, remaining |-> 0, reset |-> 0, window |-> 0],
   conc |-> {}, seen |-> 0, cold |-> FALSE, lag |-> 0]

\* lines 31-32: now = time.time(); the pipeline is then queued and awaited
BeginCall(p, stage, key, limit, window) ==
  [IdleCall EXCEPT !.pc = "pipe", !.stage = stage, !.key = key,
     !.limit = limit, !.window = window, !.now = clock,
     \* history of the direct calls: the calls in flight when this one
     \* starts, and the number of calls on the key already admitted inside
     \* this call's window
     !.conc = IF stage # "direct" THEN {}
              ELSE {q \in Procs : call[q].pc \in {"pipe", "zrem"} /\ call[q].key = key},
     !.seen = IF stage # "direct" THEN 0
              ELSE Cardinality({q \in Procs : /\ call[q].pc = "ret"
                                               /\ call[q].key = key
                                               /\ call[q].allowed
                                               /\ call[q].now > clock - window})]

\* RateInfo without the floor at zero
RateInfoNoFloor(limit, count, now, window) ==
  [limit |-> limit, remaining |-> limit - count - 1,
   reset |-> now + window, window |-> window]

\* lines 52-57: the rate_limit_info of a check
RateInfo(limit, count, now, window) ==
  [limit |-> limit, remaining |-> Max(0, limit - count - 1),
   reset |-> now + window, window |-> window]

\* lines 35-59: MULTI/EXEC pipeline zremrangebyscore, zcard, zadd, expire,
\* then the comparison of the count with the limit
IsAllowedPipe(p) ==
  /\ call[p].pc = "pipe"
  /\ LET c == call[p]
         evicted == ZRemRangeByScore(zset[c.key], 0, c.now - c.window)
         current_count == ZCard(evicted)
     IN /\ zset' = [zset EXCEPT ![c.key] = ZAdd(evicted, Str(c.now), c.now)]
        /\ touched' = [touched EXCEPT ![p] =
             Append(@, [key |-> c.key, allowed |-> ~(current_count >= c.limit),
                        now |-> c.now])]
        /\ zexpire' = [zexpire EXCEPT ![c.key] = {clock + c.window + 1}]
        /\ call' = [call EXCEPT ![p] =
             [c EXCEPT !.count = current_count,
                       !.info = RateInfo(c.limit, current_count, c.now, c.window),
                       !.allowed = ~(current_count >= c.limit),
                       !.pc = IF current_count >= c.limit THEN "zrem" ELSE "ret",
                       \* history: the age of the timestamp when the
                       \* pipeline ran, and whether the key was cold
                       !.lag = IF c.stage # "direct" THEN 0 ELSE clock - c.now,
                       !.cold = /\ c.stage = "direct"
                                /\ \A q \in Procs \ {p} :
                                     (call[q].pc # "idle" /\ call[q].key = c.key)
                                        => call[q].now + c.window < c.now]]
  /\ UNCHANGED <<appVars, clock, advances, direct, bucketVars, gateVars, clientVars>>

\* lines 60-62: the over-limit branch removes str(now) and returns False
IsAllowedZrem(p) ==
  /\ call[p].pc = "zrem"
  /\ zset' = [zset EXCEPT ![call[p].key] = ZRem(@, Str(call[p].now))]
  /\ call' = [call EXCEPT ![p].pc = "ret"]
  /\ UNCHANGED <<appVars, clock, advances, zexpire, direct, touched, bucketVars, gateVars, clientVars>>

\* a caller invokes is_allowed(key, limit, window_seconds) directly; the
\* callers are numbered in the order in which they start
DirectCall(p) ==
  /\ call[p].pc = "idle"
  /\ \A q \in Procs : q < p => call[q].pc # "idle"
  /\ call' = [call EXCEPT ![p] =
                BeginCall(p, "direct", DirectKey, direct.limit, direct.window)]
  /\ UNCHANGED <<appVars, clock, advances, zset, zexpire, direct, touched, bucketVars, gateVars, clientVars>>

\* ------------------------------------------------------ check_rate_limit
IdleReq ==
  [pc |-> "idle", ip |-> None, user |-> None,
   headers |-> [limit |-> "", remaining |-> "", reset |-> "", retry_after |-> ""]]

\* RateLimitHeaders that sends the reset time as Retry-After
RateLimitHeadersResetAsRetry(info) ==
  [limit |-> Str(info.limit), remaining |-> Str(info.remaining),
   reset |-> Str(info.reset), retry_after |-> Str(info.reset)]

\* deps.py lines 132-137 and 147-152: the headers of the 429 response
RateLimitHeaders(info) ==
  [limit |-> Str(info.limit), remaining |-> Str(info.remaining),
   reset |-> Str(info.reset), retry_after |-> Str(info.window)]

\* deps.py lines 110-114 and 123-127 with rate_limiter.py lines 68-74:
\* the request enters the gate; get_redis raises RuntimeError when the
\* store is not connected (redis.py lines 42-47, 62-64), otherwise
\* check_ip_limit starts its per-minute check
GateStart(p, ip, user) ==
  /\ p <= NumRequests
  /\ req[p].pc = "idle"
  /\ \A q \in Procs : q < p => req[q].pc # "idle"
  /\ IF connected
     THEN /\ req' = [req EXCEPT ![p] =
                      [IdleReq EXCEPT !.pc = "running", !.ip = ip, !.user = user]]
          /\ call' = [call EXCEPT ![p] =
               BeginCall(p, "ip_minute", IpKey(ip, "minute"), settings.ip_minute,
                         WINDOW_MINUTE)]
     ELSE /\ req' = [req EXCEPT ![p] =
                      [IdleReq EXCEPT !.pc = "error", !.ip = ip, !.user = user]]
          /\ UNCHANGED call
  /\ UNCHANGED <<appVars, timeVars, zset, zexpire, direct, touched, settings, connected, bucketVars, clientVars>>

Reject(p) ==
  /\ req' = [req EXCEPT ![p].pc = "rejected",
                        ![p].headers = RateLimitHeaders(call[p].info)]
  /\ call' = [call EXCEPT ![p] = IdleCall]

Pass(p) ==
  /\ req' = [req EXCEPT ![p].pc = "passed"]
  /\ call' = [call EXCEPT ![p] = IdleCall]

NextCheck(p, stage, key, limit, window) ==
  /\ call' = [call EXCEPT ![p] = BeginCall(p, stage, key, limit, window)]
  /\ UNCHANGED req

\* GateResume with the `if not allowed: raise` after check_ip_limit left out
GateResumeNoStop(p) ==
  /\ req[p].pc = "running"
  /\ call[p].pc = "ret"
  /\ LET c == call[p]
         r == req[p]
     IN CASE c.stage = "ip_minute" ->
               IF ~c.allowed
               THEN IF r.user # None
                    THEN NextCheck(p, "user_minute", UserKey(r.user, "minute"),
                                   settings.user_minute, WINDOW_MINUTE)
                    ELSE Reject(p)
               ELSE NextCheck(p, "ip_hour", IpKey(r.ip, "hour"),
                              settings.ip_hour, WINDOW_HOUR)
          [] c.stage = "ip_hour" ->
               IF r.user # None
               THEN NextCheck(p, "user_minute", UserKey(r.user, "minute"),
                              settings.user_minute, WINDOW_MINUTE)
               ELSE IF ~c.allowed THEN Reject(p) ELSE Pass(p)
          [] c.stage = "user_minute" ->
               IF ~c.allowed THEN Reject(p)
               ELSE NextCheck(p, "user_hour", UserKey(r.user, "hour"),
                              settings.user_hour, WINDOW_HOUR)
          [] c.stage = "user_hour" ->
               IF ~c.allowed THEN Reject(p) ELSE Pass(p)
  /\ UNCHANGED <<appVars, timeVars, zset, zexpire, direct, touched, settings, connected, bucketVars, clientVars>>

\* an is_allowed call of the gate has returned: rate_limiter.py lines
\* 75-85 and 96-106, deps.py lines 128-153
GateResume(p) ==
  /\ req[p].pc = "running"
  /\ call[p].pc = "ret"
  /\ LET c == call[p]
         r == req[p]
     IN CASE c.stage = "ip_minute" ->
               IF ~c.allowed THEN Reject(p)
               ELSE NextCheck(p, "ip_hour", IpKey(r.ip, "hour"),
                              settings.ip_hour, WINDOW_HOUR)
          [] c.stage = "ip_hour" ->
               IF ~c.allowed THEN Reject(p)
               ELSE IF r.user # None
                    THEN NextCheck(p, "user_minute", UserKey(r.user, "minute"),
                                   settings.user_minute, WINDOW_MINUTE)
                    ELSE Pass(p)
          [] c.stage = "user_minute" ->
               IF ~c.allowed THEN Reject(p)
               ELSE NextCheck(p, "user_hour", UserKey(r.user, "hour"),
                              settings.user_hour, WINDOW_HOUR)
          [] c.stage = "user_hour" ->
               IF ~c.allowed THEN Reject(p) ELSE Pass(p)
  /\ UNCHANGED <<appVars, timeVars, zset, zexpire, direct, touched, settings, connected, bucketVars, clientVars>>

\* rate_limiter.py lines 35-50 and 61, deps.py lines 126 and 141: a store
\* operation of a gate check raises (redis.ConnectionError, TimeoutError).
\* Nothing catches it: it leaves is_allowed, check_ip_limit or
\* check_user_limit, and check_rate_limit.  The server may or may not have
\* applied the operation before the failure reached the client.
StoreFails(p, applied) ==
  /\ req[p].pc = "running"
  /\ call[p].pc \in {"pipe", "zrem"}
  /\ LET c == call[p]
         evicted == ZRemRangeByScore(zset[c.key], 0, c.now - c.window)
     IN /\ zset' = IF ~applied THEN zset
                   ELSE IF c.pc = "pipe"
                        THEN [zset EXCEPT ![c.key] = ZAdd(evicted, Str(c.now), c.now)]
                        ELSE [zset EXCEPT ![c.key] = ZRem(@, Str(c.now))]
        /\ zexpire' = IF applied /\ c.pc = "pipe"
                      THEN [zexpire EXCEPT ![c.key] = {clock + c.window + 1}]
                      ELSE zexpire
  /\ req' = [req EXCEPT ![p].pc = "error"]
  /\ call' = [call EXCEPT ![p] = IdleCall]
  /\ UNCHANGED <<appVars, timeVars, direct, touched, settings, connected, bucketVars, clientVars>>

\* ---------------------------------------------------- TokenBucket.consume
\* refill_rate is 1/period tokens per second.  Token amounts are held in
\* units of 1/period token, so that elapsed * refill_rate is exactly
\* `elapsed` units and one token is `period` units.
EmptyBucket == [tokens |-> {}, last |-> {}, ttl |-> {}]

IdleCons ==
  [pc |-> "idle", tokens |-> 0, bucket_size |-> 0, now |-> 0,
   new_tokens |-> 0, success |-> FALSE, remaining |-> 0,
   spent |-> 0, quiet |-> FALSE, instant |-> FALSE, waited |-> FALSE]

Units(n) == n * tbcfg.period

\* int(x) of a non-negative amount held in units
IntTokens(u) == u \div tbcfg.period

\* line 160: bucket_size = bucket_size or settings.RATE_LIMIT_BURST_SIZE
BucketSize(b) == IF b = 0 THEN RATE_LIMIT_BURST_SIZE ELSE b

\* results[i] or default: a missing key reads as None; a stored number,
\* "0.0" included, is a non-empty string
OrDefault(v, default) == IF v = {} THEN default ELSE CHOOSE x \in v : TRUE

\* Refilled without the cap at the bucket size
RefilledNoCap(current, last_update, now, size) == current + (now - last_update)

\* lines 175-178: refill for the time elapsed, capped at the bucket size
Refilled(current, last_update, now, size) ==
  Min(Units(size), current + (now - last_update))

\* the tokens admitted to the calls that have returned
RECURSIVE SumSpent(_)
SumSpent(S) ==
  IF S = {} THEN 0
  ELSE LET p == CHOOSE x \in S : TRUE
       IN (IF cons[p].pc = "ret" /\ cons[p].success THEN cons[p].tokens ELSE 0)
            + SumSpent(S \ {p})

\* lines 160-169: take the timestamp, queue the two GETs
ConsumeStart(p, n) ==
  /\ cons[p].pc = "idle"
  /\ \A q \in Procs : q < p => cons[q].pc # "idle"
  /\ cons' = [cons EXCEPT ![p] =
       [IdleCons EXCEPT !.pc = "read", !.tokens = n,
          !.bucket_size = BucketSize(tbcfg.capacity), !.now = clock,
          \* history: the tokens admitted so far, whether every other call
          \* has returned, and whether the earlier calls were made at this
          \* instant or at least 1/refill_rate seconds ago
          !.spent = SumSpent(Procs),
          !.quiet = \A q \in Procs : cons[q].pc \in {"idle", "ret"},
          !.instant = \A q \in Procs : cons[q].pc # "idle" => cons[q].now = clock,
          !.waited = \A q \in Procs :
                       cons[q].pc # "idle" => cons[q].now + tbcfg.period <= clock]]
  /\ UNCHANGED <<appVars, timeVars, limiterVars, gateVars, clientVars, bucket, tbcfg>>

\* lines 170-181 and 191: the pipeline of the two GETs, the refill and
\* the comparison; a denied call returns here without writing
ConsumeRead(p) ==
  /\ cons[p].pc = "read"
  /\ LET c == cons[p]
         current_tokens == OrDefault(bucket.tokens, Units(c.bucket_size))
         last_update == OrDefault(bucket.last, c.now)
         refilled == Refilled(current_tokens, last_update, c.now, c.bucket_size)
         enough == refilled >= Units(c.tokens)
         \* no other call is in flight and none has started after this one
         others == \A q \in Procs \ {p} :
                     /\ cons[q].pc \in {"idle", "ret"}
                     /\ q > p => cons[q].pc = "idle"
     IN cons' = [cons EXCEPT ![p] =
          [c EXCEPT !.pc = IF enough THEN "write" ELSE "ret",
                    !.success = enough,
                    !.new_tokens = IF enough THEN refilled - Units(c.tokens)
                                   ELSE refilled,
                    !.remaining = IF enough
                                  THEN IntTokens(refilled - Units(c.tokens))
                                  ELSE IntTokens(refilled),
                    !.quiet = c.quiet /\ others /\ clock = c.now]]
  /\ UNCHANGED <<appVars, timeVars, limiterVars, gateVars, clientVars, bucket, tbcfg>>

\* lines 182-189: the pipeline of the two SETs and the two EXPIREs
ConsumeWrite(p) ==
  /\ cons[p].pc = "write"
  /\ bucket' = [tokens |-> {cons[p].new_tokens}, last |-> {cons[p].now},
                ttl |-> {clock + BUCKET_TTL}]
  /\ cons' = [cons EXCEPT ![p].pc = "ret"]
  /\ UNCHANGED <<appVars, timeVars, limiterVars, gateVars, clientVars, tbcfg>>

\* hmac.new(key, message, hashlib.sha256).hexdigest(): the digest is held
\* as the pair it was computed from, so two digests are equal exactly when
\* key and message are (HMAC-SHA256 taken to be free of collisions)
HmacSha256(key, message) == [key |-> key, message |-> message]

\* security.py line 182: f"{method}\n{endpoint}\n{timestamp}\n{body}"
SignedMessage(endpoint, method, body, timestamp) ==
  method \o "\n" \o endpoint \o "\n" \o timestamp \o "\n" \o body

\* --------------------------------------------------- MCPClient.invoke_tool
Absent == "<absent>"      \* a key that the JSON object does not have
NoneVal == "<None>"       \* Python None / JSON null

\* values of "content" / "result": two strings and three objects, written
\* as Python prints them
DictPayloads == {"{'response': 'hi'}", "{'response': None}", "{'text': 'hi'}"}
Payloads == {"p1", "p2"} \cup DictPayloads
Messages == {"quota exceeded", ""}
Credentials == {"none", "good", "corrupt"}

\* what the peer can answer to one POST /tools/call
ErrorValues ==
  {[kind |-> "absent", message |-> Absent], [kind |-> "nondict", message |-> Absent]}
    \cup [kind : {"dict"}, message : Messages \cup {Absent}]

Bodies ==
  {[json |-> j, error |-> [kind |-> "absent", message |-> Absent],
    content |-> Absent, result |-> Absent] : j \in {"invalid", "nonobject"}}
    \cup [json : {"object"}, error : ErrorValues,
          content : Payloads \cup {Absent, NoneVal},
          result : Payloads \cup {Absent, NoneVal}]

NoBody ==
  [json |-> "invalid", error |-> [kind |-> "absent", message |-> Absent],
   content |-> Absent, result |-> Absent]

\* str(e) of a transport failure (httpx.ConnectError, httpx.ReadError, ...):
\* httpx fills it from the failure underneath, which may have no text
TransportTexts == {"All connection attempts failed", ""}

Outcomes ==
  {[kind |-> "timeout", status |-> 0, text |-> "", body |-> NoBody]}
    \cup [kind : {"transport"}, status : {0}, text : TransportTexts, body : {NoBody}]
    \cup [kind : {"response"}, status : {200}, text : {""}, body : Bodies]
    \cup [kind : {"response"}, status : {404, 500}, text : {"oops"}, body : {NoBody}]

ToolResult(success, result, error) ==
  [success |-> success, result |-> result, error |-> error]

NoResult == ToolResult(FALSE, NoneVal, NoneVal)

IdleInvoke ==
  [pc |-> "idle", max_retries |-> 0, credential |-> "none", attempt |-> 0,
   start_time |-> 0, duration_ms |-> 0, dispatched |-> 0,
   log |-> <<>>, sleeps |-> <<>>, sent |-> <<>>, result |-> NoResult,
   raised |-> FALSE]

\* ErrorMessage that reports every error object as "Unknown error"
ErrorMessageGeneric(err) == "Unknown error"

\* line 184: data["error"].get("message", "Unknown error")
ErrorMessage(err) == IF err.message = Absent THEN "Unknown error" ELSE err.message

\* ContentOrResult that reads the result key only
ResultOnly(body) == IF body.result # Absent THEN body.result ELSE NoneVal

\* line 190: data.get("content", data.get("result"))
ContentOrResult(body) ==
  IF body.content # Absent THEN body.content
  ELSE IF body.result # Absent THEN body.result
  ELSE NoneVal

\* str(e) of the exceptions that reach the generic handler (lines 216-223)
ExceptionText(what) ==
  CASE what = "decrypt"   -> "InvalidToken"
    [] what = "invalid"   -> "Expecting value: line 1 column 1 (char 0)"
    [] what = "nonobject" -> "'list' object has no attribute 'get'"
    [] what = "nondict"   -> "'str' object has no attribute 'get'"

\* line 212: f"HTTP {status_code}: {text[:200]}"; the response texts of the
\* model are shorter than 200 characters
HttpErrorText(status, text) == "HTTP " \o Str(status) \o ": " \o text

\* lines 174-192 and 207-223: what one attempt returns for an answer that
\* is not a timeout
AttemptResult(o) ==
  IF o.kind = "transport" THEN ToolResult(FALSE, NoneVal, o.text)
  ELSE IF o.status \notin 200..299
       THEN ToolResult(FALSE, NoneVal, HttpErrorText(o.status, o.text))
  ELSE IF o.body.json # "object"
       THEN ToolResult(FALSE, NoneVal, ExceptionText(o.body.json))
  ELSE IF o.body.error.kind = "nondict"
       THEN ToolResult(FALSE, NoneVal, ExceptionText("nondict"))
  ELSE IF o.body.error.kind = "dict"
       THEN ToolResult(FALSE, NoneVal, ErrorMessage(o.body.error))
  ELSE ToolResult(TRUE, ContentOrResult(o.body), NoneVal)

\* lines 145-178: the exception, if any, that an answer raises inside try
InvokeException(o) ==
  CASE o.kind = "transport"             -> "TransportError"
    [] o.status \notin 200..299         -> "HTTPStatusError"
    [] o.body.json = "invalid"          -> "JSONDecodeError"
    [] o.body.json = "nonobject"        -> "AttributeError"
    [] o.body.error.kind = "nondict"    -> "AttributeError"
    [] OTHER                            -> "none"

\* InvokeHandled without the `except Exception` clause
InvokeHandledStatusOnly(e) == e = "HTTPStatusError"

\* lines 207-223: except httpx.HTTPStatusError, then except Exception
InvokeHandled(e) == e = "HTTPStatusError" \/ e # "none"

\* an exception leaves invoke_tool
Escaped == [inv EXCEPT !.pc = "raised", !.raised = TRUE]

Finish(result) ==
  [inv EXCEPT !.pc = "done", !.result = result,
              !.duration_ms = (clock - inv.start_time) * 1000]

\* lines 142-144: start_time, then the loop over range(MCP_MAX_RETRIES);
\* lines 225-231 when the range is empty
InvokeBegin ==
  /\ inv.pc = "idle"
  /\ inv' = IF inv.max_retries = 0
            THEN [Finish(ToolResult(FALSE, NoneVal, "Max retries exceeded"))
                    EXCEPT !.start_time = clock, !.duration_ms = 0]
            ELSE [inv EXCEPT !.pc = "send", !.start_time = clock]
  /\ UNCHANGED <<appVars, timeVars, limiterVars, bucketVars, gateVars, disc>>

\* the arguments of the call: the app's endpoint, and the body that line
\* 153 renders with json.dumps
McpEndpoint == "https://tools.example/mcp"
ToolCallBody == "{\"name\": \"search\", \"arguments\": {}}"

\* security.py lines 105-108, for a credential that decrypts
decrypt_value(credential) == "api-key-1"

\* the headers that matter here; a header that is not set is the empty set
NoHeaders == [authorization |-> {}, timestamp |-> {}, signature |-> {}]

\* lines 60-79; now is the value of time.time()
_sign_request(endpoint, method, body, api_key, now) ==
  LET timestamp == Str(now)
  IN [timestamp |-> timestamp,
      signature |-> HmacSha256(api_key, SignedMessage(endpoint, method, body, timestamp))]

\* lines 146-163: the headers of one attempt
RequestHeaders(credential, now) ==
  IF credential = "none" THEN NoHeaders
  ELSE LET api_key == decrypt_value(credential)
           signing_headers == _sign_request(McpEndpoint, "POST", ToolCallBody, api_key, now)
       IN [authorization |-> {"Bearer " \o api_key},
           timestamp |-> {signing_headers.timestamp},
           signature |-> {signing_headers.signature}]

\* InvokeSend that signs the first attempt and sends the same headers again
\* with every retry
InvokeSendSignOnce ==
  /\ inv.pc = "send"
  /\ inv' = IF inv.credential = "corrupt"
            THEN IF InvokeHandled("InvalidToken")
                 THEN Finish(ToolResult(FALSE, NoneVal, ExceptionText("decrypt")))
                 ELSE Escaped
            ELSE [inv EXCEPT !.pc = "wait", !.dispatched = @ + 1,
                    !.sent = Append(@, RequestHeaders(inv.credential, inv.start_time))]
  /\ UNCHANGED <<appVars, timeVars, limiterVars, bucketVars, gateVars, disc>>

\* lines 145-173: decrypt the credential and sign, then POST /tools/call;
\* a credential that does not decrypt raises into the generic handler
InvokeSend ==
  /\ inv.pc = "send"
  /\ inv' = IF inv.credential = "corrupt"
            THEN IF InvokeHandled("InvalidToken")
                 THEN Finish(ToolResult(FALSE, NoneVal, ExceptionText("decrypt")))
                 ELSE Escaped
            ELSE [inv EXCEPT !.pc = "wait", !.dispatched = @ + 1,
                    !.sent = Append(@, RequestHeaders(inv.credential, clock))]
  /\ UNCHANGED <<appVars, timeVars, limiterVars, bucketVars, gateVars, disc>>

TimeoutOutcome == [kind |-> "timeout", status |-> 0, text |-> "", body |-> NoBody]

\* InvokeTimeout that stops retrying one attempt early
InvokeTimeoutEarly ==
  /\ inv.pc = "wait"
  /\ clock' = clock + MCP_DEFAULT_TIMEOUT
  /\ LET logged == [inv EXCEPT !.log = Append(@, TimeoutOutcome)]
     IN inv' = IF inv.attempt < inv.max_retries - 2
               THEN [logged EXCEPT !.pc = "sleep"]
               ELSE [logged EXCEPT !.pc = "done",
                       !.result = ToolResult(FALSE, NoneVal, "Request timed out"),
                       !.duration_ms = (clock + MCP_DEFAULT_TIMEOUT - inv.start_time) * 1000]
  /\ UNCHANGED <<appVars, advances, limiterVars, bucketVars, gateVars, disc>>

\* InvokeTimeout whose last timeout leaves the loop instead of returning
InvokeTimeoutFallThrough ==
  /\ inv.pc = "wait"
  /\ clock' = clock + MCP_DEFAULT_TIMEOUT
  /\ LET logged == [inv EXCEPT !.log = Append(@, TimeoutOutcome)]
     IN inv' = IF inv.attempt < inv.max_retries - 1
               THEN [logged EXCEPT !.pc = "sleep"]
               ELSE [logged EXCEPT !.pc = "done",
                       !.result = ToolResult(FALSE, NoneVal, "Max retries exceeded"),
                       !.duration_ms = (clock + MCP_DEFAULT_TIMEOUT - inv.start_time) * 1000]
  /\ UNCHANGED <<appVars, advances, limiterVars, bucketVars, gateVars, disc>>

\* lines 194-205: httpx.TimeoutException after MCP_DEFAULT_TIMEOUT seconds
InvokeTimeout ==
  /\ inv.pc = "wait"
  /\ clock' = clock + MCP_DEFAULT_TIMEOUT
  /\ LET logged == [inv EXCEPT !.log = Append(@, TimeoutOutcome)]
     IN inv' = IF inv.attempt < inv.max_retries - 1
               THEN [logged EXCEPT !.pc = "sleep"]
               ELSE [logged EXCEPT !.pc = "done",
                       !.result = ToolResult(FALSE, NoneVal, "Request timed out"),
                       !.duration_ms = (clock + MCP_DEFAULT_TIMEOUT - inv.start_time) * 1000]
  /\ UNCHANGED <<appVars, advances, limiterVars, bucketVars, gateVars, disc>>

\* InvokeSleep that waits the same delay before every retry
InvokeSleepConstant ==
  /\ inv.pc = "sleep"
  /\ clock' = clock + MCP_RETRY_DELAY
  /\ LET slept == [inv EXCEPT !.sleeps = Append(@, MCP_RETRY_DELAY)]
     IN inv' = IF inv.attempt + 1 < inv.max_retries
               THEN [slept EXCEPT !.pc = "send", !.attempt = @ + 1]
               ELSE [slept EXCEPT !.pc = "done",
                       !.result = ToolResult(FALSE, NoneVal, "Max retries exceeded"),
                       !.duration_ms = (clock + MCP_RETRY_DELAY - inv.start_time) * 1000]
  /\ UNCHANGED <<appVars, advances, limiterVars, bucketVars, gateVars, disc>>

\* lines 196-197: asyncio.sleep(MCP_RETRY_DELAY * (attempt + 1)), then
\* continue: the next turn of the loop, or lines 225-231 when the range
\* is used up
InvokeSleep ==
  /\ inv.pc = "sleep"
  /\ clock' = clock + MCP_RETRY_DELAY * (inv.attempt + 1)
  /\ LET slept == [inv EXCEPT !.sleeps = Append(@, MCP_RETRY_DELAY * (inv.attempt + 1))]
     IN inv' = IF inv.attempt + 1 < inv.max_retries
               THEN [slept EXCEPT !.pc = "send", !.attempt = @ + 1]
               ELSE [slept EXCEPT !.pc = "done",
                       !.result = ToolResult(FALSE, NoneVal, "Max retries exceeded"),
                       !.duration_ms = (clock + MCP_RETRY_DELAY * (inv.attempt + 1)
                                          - inv.start_time) * 1000]
  /\ UNCHANGED <<appVars, advances, limiterVars, bucketVars, gateVars, disc>>

\* lines 174-192 and 207-223: an answer or a failure that is no timeout
InvokeReceive(o) ==
  /\ inv.pc = "wait"
  /\ o.kind # "timeout"
  /\ inv' = IF InvokeException(o) = "none" \/ InvokeHandled(InvokeException(o))
            THEN [Finish(AttemptResult(o)) EXCEPT !.log = Append(@, o)]
            ELSE [Escaped EXCEPT !.log = Append(@, o)]
  /\ UNCHANGED <<appVars, timeVars, limiterVars, bucketVars, gateVars, disc>>

\* ------------------------------------------------ MCPClient.discover_tools
AppId == "app-1"
AppName == "App One"
EmptySchema == "{}"

\* an element of the "tools" list: an object with any of the three keys,
\* or something that is not an object
ToolItems ==
  [kind : {"object"}, name : {Absent, "search"}, description : {Absent, "finds"},
   inputSchema : {Absent, "schema"}]
    \cup {[kind |-> "other", name |-> Absent, description |-> Absent,
           inputSchema |-> Absent]}

ToolLists == UNION {[1..n -> ToolItems] : n \in 0..MaxTools}

\* what the peer can answer to POST /tools/list
DiscoverOutcomes ==
  {[kind |-> k, status |-> 0, json |-> "invalid", tools |-> "absent", items |-> <<>>] :
      k \in {"timeout", "transport"}}
    \cup {[kind |-> "response", status |-> st, json |-> "invalid", tools |-> "absent",
           items |-> <<>>] : st \in {404, 500}}
    \cup {[kind |-> "response", status |-> 200, json |-> j, tools |-> "absent",
           items |-> <<>>] : j \in {"invalid", "nonobject"}}
    \cup {[kind |-> "response", status |-> 200, json |-> "object", tools |-> t,
           items |-> <<>>] : t \in {"absent", "notiterable"}}
    \cup {[kind |-> "response", status |-> 200, json |-> "object", tools |-> "list",
           items |-> l] : l \in ToolLists}

NoOutcome ==
  [kind |-> "none", status |-> 0, json |-> "invalid", tools |-> "absent", items |-> <<>>]

IdleDiscover ==
  [pc |-> "idle", credential |-> "none", outcome |-> NoOutcome, exc |-> "none",
   raised |-> FALSE, tools |-> <<>>]

OrElse(v, default) == IF v = Absent THEN default ELSE v

\* lines 112-118: Tool(name=..get("name", ""), ...)
ToolOf(item) ==
  [name |-> OrElse(item.name, ""), description |-> OrElse(item.description, ""),
   parameters |-> OrElse(item.inputSchema, EmptySchema),
   app_id |-> AppId, app_name |-> AppName]

\* lines 101-118: the exception, if any, that the answer raises inside try
DiscoverException(o) ==
  CASE o.kind = "timeout"            -> "TimeoutException"
    [] o.kind = "transport"          -> "ConnectError"
    [] o.status \notin 200..299      -> "HTTPStatusError"
    [] o.json = "invalid"            -> "JSONDecodeError"
    [] o.json = "nonobject"          -> "AttributeError"
    [] o.tools = "notiterable"       -> "TypeError"
    [] \E i \in 1..Len(o.items) : o.items[i].kind # "object" -> "AttributeError"
    [] OTHER                         -> "none"

IsHTTPError(e) == e \in {"TimeoutException", "ConnectError", "HTTPStatusError"}

\* Handled without the `except Exception` clause
HandledHTTPOnly(e) == IsHTTPError(e)

\* lines 123-128: except httpx.HTTPError, then except Exception
Handled(e) == IsHTTPError(e) \/ e # "none"

\* lines 93-128: the value returned, or the exception that escapes
Discovered(d, e, items) ==
  IF e = "none"
  THEN [d EXCEPT !.pc = "done", !.tools = [i \in 1..Len(items) |-> ToolOf(items[i])]]
  ELSE IF Handled(e)
       THEN [d EXCEPT !.pc = "done", !.exc = e, !.tools = <<>>]
       ELSE [d EXCEPT !.pc = "done", !.exc = e, !.raised = TRUE]

\* DiscoverSend that posts the request whatever the credential
DiscoverSendAnyway(c) ==
  /\ disc.pc = "idle"
  /\ disc' = [disc EXCEPT !.pc = "wait", !.credential = c]
  /\ UNCHANGED <<appVars, timeVars, limiterVars, bucketVars, gateVars, inv>>

\* lines 94-105: headers, decryption of the credential, POST /tools/list
DiscoverSend(c) ==
  /\ disc.pc = "idle"
  /\ disc' = IF c = "corrupt"
             THEN Discovered([disc EXCEPT !.credential = c], "InvalidToken", <<>>)
             ELSE [disc EXCEPT !.pc = "wait", !.credential = c]
  /\ UNCHANGED <<appVars, timeVars, limiterVars, bucketVars, gateVars, inv>>

\* lines 106-128: the answer, or the failure, of the POST
DiscoverReceive(o) ==
  /\ disc.pc = "wait"
  /\ disc' = Discovered([disc EXCEPT !.outcome = o], DiscoverException(o), o.items)
  /\ UNCHANGED <<appVars, timeVars, limiterVars, bucketVars, gateVars, inv>>

\* ------------------------------------- sign_request / verify_signature
Secrets == {"secret-1", "secret-2"}
Methods == {"POST", "GET"}
Endpoints == {"/tools/call", "/tools/list"}
\* the fields are arbitrary strings: they may hold the separator "\n"
Timestamps == {"1700000000", "1700000000\n"}
SignBodies == {"", "{}", "\n{}"}

RequestTuples ==
  [endpoint : Endpoints, method : Methods, body : SignBodies, timestamp : Timestamps]

\* sign_request that leaves the timestamp out of the signed message
sign_requestNoTimestamp(secret, endpoint, method, body, timestamp) ==
  HmacSha256(secret, method \o "\n" \o endpoint \o "\n" \o body)

\* security.py lines 175-188; secret is settings.MCP_SIGNING_SECRET
sign_request(secret, endpoint, method, body, timestamp) ==
  HmacSha256(secret, SignedMessage(endpoint, method, body, timestamp))

\* hmac.compare_digest
compare_digest(a, b) == a = b

\* verify_signature that passes method and endpoint in the wrong order
verify_signatureSwapped(secret, endpoint, method, body, timestamp, signature) ==
  compare_digest(signature, sign_request(secret, method, endpoint, body, timestamp))

\* security.py lines 191-200
verify_signature(secret, endpoint, method, body, timestamp, signature) ==
  LET expected == sign_request(secret, endpoint, method, body, timestamp)
  IN compare_digest(signature, expected)

NoSignature == HmacSha256("", "")

IdleSign ==
  [pc |-> "idle", secret |-> "secret-1", verifier_secret |-> "secret-1",
   signed |-> [endpoint |-> "/tools/call", method |-> "POST", body |-> "",
               timestamp |-> "1700000000"],
   shown |-> [endpoint |-> "/tools/call", method |-> "POST", body |-> "",
              timestamp |-> "1700000000"],
   signature |-> NoSignature, verdict |-> FALSE]

\* the sender signs its request tuple
SignRequest ==
  /\ sgn.pc = "idle"
  /\ sgn' = [sgn EXCEPT !.pc = "signed",
               !.signature = sign_request(sgn.secret, sgn.signed.endpoint,
                               sgn.signed.method, sgn.signed.body, sgn.signed.timestamp)]
  /\ UNCHANGED <<timeVars, limiterVars, bucketVars, gateVars, clientVars, chat>>

\* on the way to the verifier one field of the request is replaced by
\* another value; the signature is kept
Tamper(field, value) ==
  /\ sgn.pc = "signed"
  /\ sgn.shown[field] # value
  /\ sgn' = [sgn EXCEPT !.shown[field] = value]
  /\ UNCHANGED <<timeVars, limiterVars, bucketVars, gateVars, clientVars, chat>>

\* the receiver checks the signature against the request it was shown
VerifySignature ==
  /\ sgn.pc = "signed"
  /\ sgn' = [sgn EXCEPT !.pc = "verified",
               !.verdict = verify_signature(sgn.verifier_secret, sgn.shown.endpoint,
                             sgn.shown.method, sgn.shown.body, sgn.shown.timestamp,
                             sgn.signature)]
  /\ UNCHANGED <<timeVars, limiterVars, bucketVars, gateVars, clientVars, chat>>

\* ---------------------------------------------------------- send_message
ChatUser == 1     \* the request whose handler is followed

\* what the handler finds: a message that is empty after sanitizing, a
\* conversation id that is not the user's, or the enabled apps
ChatEntries ==
  {"empty_message", "conversation_missing", "no_apps", "no_chat_app",
   "gemini", "gemini_unconfigured", "external", "external_no_endpoint"}

\* what gemini_client.chat returns (gemini.py lines 102-114)
GeminiResults ==
  {[success |-> TRUE, response |-> "hello", error |-> Absent],
   [success |-> FALSE, response |-> "Error generating response: quota",
    error |-> "quota"]}

NoToolCalls == <<>>

ToolCallEntry(app_name, success, error, duration) ==
  [tool_name |-> "chat", app_name |-> app_name, success |-> success,
   error |-> error, duration_ms |-> duration]

IdleChat ==
  [pc |-> "idle", entry |-> None, content |-> "", tool_calls |-> NoToolCalls,
   status |-> 0, stored |-> FALSE]

\* isinstance(x, dict)
IsDict(v) == v \in DictPayloads

\* str(x)
PyStr(v) == IF v = NoneVal THEN "None" ELSE v

\* x.get("response", default) of an object payload
GetResponse(v, default) ==
  CASE v = "{'response': 'hi'}" -> "hi"
    [] v = "{'response': None}" -> NoneVal
    [] OTHER                    -> default

\* chat.py lines 343-347: the text taken from a successful ToolResult
ResponseText(result) ==
  IF IsDict(result) THEN GetResponse(result, PyStr(result)) ELSE PyStr(result)

\* chat.py line 355
FailureText(app_name, error) ==
  "Sorry, I couldn't get a response from " \o app_name \o ": " \o PyStr(error)

\* the gate rejected the request: the handler does not run (429)
ChatRejected ==
  /\ chat.pc = "idle"
  /\ req[ChatUser].pc = "rejected"
  /\ chat' = [chat EXCEPT !.pc = "rejected", !.status = 429]
  /\ UNCHANGED <<timeVars, limiterVars, bucketVars, gateVars, clientVars, sgn>>

\* chat.py lines 199-337 and 359-367: the gate has passed the request; the
\* handler sanitizes the message, finds the conversation, stores the user
\* message, picks the chat app and either asks the built-in assistant,
\* starts invoke_tool on the external server, or writes a notice
ChatHandler(entry, gemini, credential) ==
  /\ chat.pc = "idle"
  /\ req[ChatUser].pc = "passed"
  /\ CASE entry = "empty_message" ->
            /\ chat' = [chat EXCEPT !.pc = "error", !.entry = entry, !.status = 400]
            /\ UNCHANGED inv
       [] entry = "conversation_missing" ->
            /\ chat' = [chat EXCEPT !.pc = "error", !.entry = entry, !.status = 404]
            /\ UNCHANGED inv
       [] entry = "gemini" ->
            /\ chat' = [chat EXCEPT !.pc = "store", !.entry = entry,
                 !.content = IF gemini.success THEN gemini.response
                             ELSE "Sorry, I encountered an error: " \o gemini.error,
                 !.tool_calls = <<ToolCallEntry("Gemini AI Assistant", gemini.success,
                                                gemini.error, {})>>]
            /\ UNCHANGED inv
       [] entry = "external" ->
            /\ chat' = [chat EXCEPT !.pc = "invoke", !.entry = entry]
            /\ inv' = [IdleInvoke EXCEPT !.max_retries = MCP_MAX_RETRIES,
                                         !.credential = credential]
       [] OTHER ->
            /\ chat' = [chat EXCEPT !.pc = "store", !.entry = entry,
                 !.content =
                   CASE entry = "gemini_unconfigured" ->
                          "The Gemini AI Assistant is not configured."
                     [] entry = "external_no_endpoint" ->
                          "The app " \o AppName
                            \o " doesn't have a valid MCP endpoint configured."
                     [] entry = "no_apps" -> "You don't have any apps enabled."
                     [] entry = "no_chat_app" ->
                          "You have 1 app(s) enabled, but none of them have chat capability."]
            /\ UNCHANGED inv
  /\ UNCHANGED <<timeVars, limiterVars, bucketVars, gateVars, disc, sgn>>

\* chat.py lines 341-358: invoke_tool has returned its ToolResult
ChatToolResult ==
  /\ chat.pc = "invoke"
  /\ inv.pc = "done"
  /\ LET tool_result == inv.result
     IN chat' = IF tool_result.success
                THEN [chat EXCEPT !.pc = "store",
                        !.content = ResponseText(tool_result.result),
                        !.tool_calls = <<ToolCallEntry(AppName, TRUE, Absent,
                                                       {inv.duration_ms})>>]
                ELSE [chat EXCEPT !.pc = "store",
                        !.content = FailureText(AppName, tool_result.error),
                        !.tool_calls = <<ToolCallEntry(AppName, FALSE,
                                                       tool_result.error, {})>>]
  /\ UNCHANGED <<timeVars, limiterVars, bucketVars, gateVars, clientVars, sgn>>

\* chat.py lines 369-391: the assistant message is added and committed and
\* the response is built; messages.content is NOT NULL (models/chat.py
\* line 89), so a content of None makes the commit raise
ChatStore ==
  /\ chat.pc = "store"
  /\ chat' = IF chat.content = NoneVal
             THEN [chat EXCEPT !.pc = "error", !.status = 500]
             ELSE [chat EXCEPT !.pc = "ok", !.status = 200, !.stored = TRUE]
  /\ UNCHANGED <<timeVars, limiterVars, bucketVars, gateVars, clientVars, sgn>>

\* rate_limiter.py lines 108-119: the tool-scoped check.  No caller in the
\* repository invokes it: no action of the model uses it.
ToolKey(tool_id, user_id) ==
  "ratelimit:tool:" \o tool_id \o ":user:" \o user_id \o ":minute"

check_tool_limit(p, tool_id, user_id) ==
  NextCheck(p, "tool_minute", ToolKey(tool_id, user_id), RATE_LIMIT_TOOL_PER_MINUTE,
            WINDOW_MINUTE)

\* a key with a time to live is gone once the time is reached
Expired(ttl, t) == \E e \in ttl : e <= t

\* time passes (at most `most` times in a run); Redis drops the keys whose
\* expiry is reached
Advance(d, most) ==
  /\ advances < most
  /\ clock' = clock + d
  /\ advances' = advances + 1
  /\ zset' = [k \in DOMAIN zset |-> IF Expired(zexpire[k], clock + d) THEN {} ELSE zset[k]]
  /\ zexpire' = [k \in DOMAIN zexpire |->
                  IF Expired(zexpire[k], clock + d) THEN {} ELSE zexpire[k]]
  /\ bucket' = IF Expired(bucket.ttl, clock + d) THEN EmptyBucket ELSE bucket
  /\ UNCHANGED <<appVars, direct, call, touched, tbcfg, cons, gateVars, clientVars>>

vars == <<timeVars, limiterVars, bucketVars, gateVars, clientVars, appVars>>

IdleBucket ==
  /\ bucket = EmptyBucket
  /\ tbcfg = [capacity |-> 1, period |-> 1]
  /\ cons = [p \in Procs |-> IdleCons]

IdleLimiter ==
  /\ zset = [k \in LimiterKeys |-> {}]
  /\ zexpire = [k \in LimiterKeys |-> {}]
  /\ direct = [limit |-> 1, window |-> 1]
  /\ call = [p \in Procs |-> IdleCall]
  /\ touched = [p \in Procs |-> <<>>]

IdleClient ==
  /\ inv = IdleInvoke
  /\ disc = IdleDiscover

IdleGate ==
  /\ settings = [ip_minute |-> 1, ip_hour |-> 1, user_minute |-> 1, user_hour |-> 1]
  /\ req = [p \in Procs |-> IdleReq]
  /\ connected = TRUE

IdleApp ==
  /\ sgn = IdleSign
  /\ chat = IdleChat

InitLimiter ==
  /\ clock = 0
  /\ advances = 0
  /\ zset = [k \in LimiterKeys |-> {}]
  /\ zexpire = [k \in LimiterKeys |-> {}]
  /\ direct \in [limit : 1..MaxLimit, window : DirectWindows]
  /\ call = [p \in Procs |-> IdleCall]
  /\ touched = [p \in Procs |-> <<>>]
  /\ IdleBucket
  /\ IdleGate
  /\ IdleClient
  /\ IdleApp

NextLimiter ==
  \/ \E p \in Procs : DirectCall(p)
  \/ \E p \in Procs : IsAllowedPipe(p)
  \/ \E p \in Procs : IsAllowedZrem(p)
  \/ \E d \in TimeSteps : Advance(d, MaxAdvances)

SpecLimiter == InitLimiter /\ [][NextLimiter]_vars

InitBucket ==
  /\ clock = 0
  /\ advances = 0
  /\ IdleLimiter
  /\ IdleGate
  /\ IdleClient
  /\ IdleApp
  /\ bucket = EmptyBucket
  /\ tbcfg \in [capacity : 1..MaxCapacity, period : 1..MaxPeriod]
  /\ cons = [p \in Procs |-> IdleCons]

NextBucket ==
  \/ \E p \in Procs : \E n \in 0..MaxCapacity : ConsumeStart(p, n)
  \/ \E p \in Procs : ConsumeRead(p)
  \/ \E p \in Procs : ConsumeWrite(p)
  \/ \E d \in BucketSteps : Advance(d, MaxAdvances)

SpecBucket == InitBucket /\ [][NextBucket]_vars

InitGate ==
  /\ clock = 0
  /\ advances = 0
  /\ zset = [k \in LimiterKeys |-> {}]
  /\ zexpire = [k \in LimiterKeys |-> {}]
  /\ direct = [limit |-> 1, window |-> 1]
  /\ call = [p \in Procs |-> IdleCall]
  /\ touched = [p \in Procs |-> <<>>]
  /\ IdleBucket
  /\ settings \in [ip_minute : 1..MaxLimit, ip_hour : 1..MaxLimit,
                   user_minute : 1..MaxLimit, user_hour : 1..MaxLimit]
  /\ req = [p \in Procs |-> IdleReq]
  /\ connected = TRUE
  /\ IdleClient
  /\ IdleApp

NextGate ==
  \/ \E p \in Procs : \E ip \in Ips : \E user \in Users \cup {None} : GateStart(p, ip, user)
  \/ \E p \in Procs : IsAllowedPipe(p)
  \/ \E p \in Procs : IsAllowedZrem(p)
  \/ \E p \in Procs : GateResume(p)
  \/ \E d \in TimeSteps : Advance(d, MaxGateAdvances)

SpecGate == InitGate /\ [][NextGate]_vars

\* the gate with a store that may be unconnected or fail
InitGateStore ==
  /\ clock = 0
  /\ advances = 0
  /\ IdleLimiter
  /\ IdleBucket
  /\ settings \in [ip_minute : {1, MaxLimit}, ip_hour : {1}, user_minute : {1, MaxLimit},
                   user_hour : {1}]
  /\ req = [p \in Procs |-> IdleReq]
  /\ connected \in BOOLEAN
  /\ IdleClient
  /\ IdleApp

NextGateStore ==
  \/ \E p \in Procs : \E ip \in Ips : \E user \in Users \cup {None} : GateStart(p, ip, user)
  \/ \E p \in Procs : IsAllowedPipe(p)
  \/ \E p \in Procs : IsAllowedZrem(p)
  \/ \E p \in Procs : GateResume(p)
  \/ \E p \in Procs : \E applied \in BOOLEAN : StoreFails(p, applied)

SpecGateStore == InitGateStore /\ [][NextGateStore]_vars

\* an earlier request of the same user from the same address, one second
\* ago, has left its entry under each of the four keys
EarlierRequest(k) ==
  IF k = DirectKey THEN {} ELSE {[member |-> Str(0), score |-> 0]}

\* the gate over a store that holds the events of an earlier request, which
\* every check admitted at time 0, one second ago
InitGateBusy ==
  /\ clock = 1
  /\ advances = 0
  /\ zset = [k \in LimiterKeys |-> EarlierRequest(k)]
  /\ zexpire = [k \in LimiterKeys |->
                 IF k = DirectKey THEN {}
                 ELSE {IF k \in {IpKey(ip, "minute") : ip \in Ips}
                             \cup {UserKey(u, "minute") : u \in Users}
                       THEN WINDOW_MINUTE + 1 ELSE WINDOW_HOUR + 1}]
  /\ direct = [limit |-> 1, window |-> 1]
  /\ call = [p \in Procs |-> IdleCall]
  /\ touched = [p \in Procs |-> <<>>]
  /\ IdleBucket
  /\ settings \in [ip_minute : 1..MaxLimit, ip_hour : 1..MaxLimit,
                   user_minute : {MaxLimit}, user_hour : 1..MaxLimit]
  /\ req = [p \in Procs |-> IdleReq]
  /\ connected = TRUE
  /\ IdleClient
  /\ IdleApp

SpecGateBusy == InitGateBusy /\ [][NextGate]_vars

InitInvoke ==
  /\ clock = 0
  /\ advances = 0
  /\ IdleLimiter
  /\ IdleBucket
  /\ IdleGate
  /\ inv \in {[IdleInvoke EXCEPT !.max_retries = m, !.credential = c] :
                m \in 0..MCP_MAX_RETRIES, c \in Credentials}
  /\ disc = IdleDiscover
  /\ IdleApp

NextInvoke ==
  \/ InvokeBegin
  \/ InvokeSend
  \/ InvokeTimeout
  \/ InvokeSleep
  \/ \E o \in Outcomes : InvokeReceive(o)

SpecInvoke == InitInvoke /\ [][NextInvoke]_vars

\* the event loop resumes the coroutine, and every await of invoke_tool
\* ends: the POST within the client's timeout, the sleep after its delay
SpecInvokeFair == SpecInvoke /\ WF_vars(NextInvoke)

InitDiscover ==
  /\ clock = 0
  /\ advances = 0
  /\ IdleLimiter
  /\ IdleBucket
  /\ IdleGate
  /\ IdleClient
  /\ IdleApp

NextDiscover ==
  \/ \E c \in Credentials : DiscoverSend(c)
  \/ \E o \in DiscoverOutcomes : DiscoverReceive(o)

SpecDiscover == InitDiscover /\ [][NextDiscover]_vars

\* one MCPClient serving a tool call and a discovery, in any interleaving
NextClient ==
  \/ NextInvoke
  \/ NextDiscover

SpecClient == InitInvoke /\ [][NextClient]_vars

InitSign ==
  /\ clock = 0
  /\ advances = 0
  /\ IdleLimiter
  /\ IdleBucket
  /\ IdleGate
  /\ IdleClient
  /\ chat = IdleChat
  /\ \E t \in RequestTuples : \E k, vk \in Secrets :
       sgn = [IdleSign EXCEPT !.secret = k, !.verifier_secret = vk,
                              !.signed = t, !.shown = t]

NextSign ==
  \/ SignRequest
  \/ \E v \in Endpoints : Tamper("endpoint", v)
  \/ \E v \in Methods : Tamper("method", v)
  \/ \E v \in SignBodies : Tamper("body", v)
  \/ \E v \in Timestamps : Tamper("timestamp", v)
  \/ VerifySignature

SpecSign == InitSign /\ [][NextSign]_vars

InitChat ==
  /\ advances = 0
  /\ \E earlier \in BOOLEAN :
       /\ clock = (IF earlier THEN 1 ELSE 0)
       /\ zset = [k \in LimiterKeys |-> IF earlier THEN EarlierRequest(k) ELSE {}]
       /\ zexpire = [k \in LimiterKeys |->
                      IF earlier /\ k # DirectKey
                      THEN {IF k \in {IpKey(ip, "minute") : ip \in Ips}
                                  \cup {UserKey(u, "minute") : u \in Users}
                            THEN WINDOW_MINUTE + 1 ELSE WINDOW_HOUR + 1}
                      ELSE {}]
  /\ direct = [limit |-> 1, window |-> 1]
  /\ call = [p \in Procs |-> IdleCall]
  /\ touched = [p \in Procs |-> <<>>]
  /\ IdleBucket
  /\ settings \in [ip_minute : 1..MaxLimit, ip_hour : {MaxLimit},
                   user_minute : {MaxLimit}, user_hour : 1..MaxLimit]
  /\ req = [p \in Procs |-> IdleReq]
  /\ connected = TRUE
  /\ inv = [IdleInvoke EXCEPT !.pc = "uncalled"]
  /\ disc = IdleDiscover
  /\ sgn = IdleSign
  /\ chat = IdleChat

NextChat ==
  \/ \E ip \in Ips : \E user \in Users : GateStart(ChatUser, ip, user)
  \/ IsAllowedPipe(ChatUser)
  \/ IsAllowedZrem(ChatUser)
  \/ GateResume(ChatUser)
  \/ ChatRejected
  \/ \E entry \in ChatEntries : \E gemini \in GeminiResults : \E credential \in Credentials :
       ChatHandler(entry, gemini, credential)
  \/ InvokeBegin
  \/ InvokeSend
  \/ InvokeTimeout
  \/ InvokeSleep
  \/ \E o \in Outcomes : InvokeReceive(o)
  \/ ChatToolResult
  \/ ChatStore

SpecChat == InitChat /\ [][NextChat]_vars

\* ------------------------------------------------------------ properties
Returned(p) == call[p].stage = "direct" /\ call[p].pc = "ret"

\* the two calls were in flight at the same time
Overlap(p, q) == q \in call[p].conc \/ p \in call[q].conc

Abs(x) == IF x >= 0 THEN x ELSE -x

\* the pipeline ran in the second in which the call took its timestamp
Prompt(p) == call[p].lag = 0

\* C1: with limit = 1, two is_allowed calls on one key that run
\* concurrently (each prompt, their timestamps inside one window) are never
\* both allowed
C1_NoDoubleAdmit ==
  \A p, q \in Procs :
    (/\ p # q /\ Returned(p) /\ Returned(q)
     /\ call[p].limit = 1
     /\ Overlap(p, q)
     /\ Prompt(p) /\ Prompt(q)
     /\ Abs(call[p].now - call[q].now) < call[p].window)
    => ~(call[p].allowed /\ call[q].allowed)

\* C2: a call that starts after N = limit calls were admitted inside its
\* window is denied, and a call made when every earlier event on the key is
\* more than the window old is allowed
C2_WindowExpiry ==
  \A p \in Procs :
    (Returned(p) /\ Prompt(p))
       => /\ (call[p].seen = call[p].limit => ~call[p].allowed)
          /\ (call[p].cold => call[p].allowed)

ConsReturned(p) == cons[p].pc = "ret"

\* C3: while no time passes (no refill), the consume calls on a fresh,
\* full bucket never jointly admit more tokens than the bucket holds
C3_AtomicConsume ==
  advances = 0 => SumSpent(Procs) <= tbcfg.capacity

\* C4: once capacity tokens have been consumed from a full bucket, a
\* request for 1 token made at that instant is denied, and a request for 1
\* token made 1/refill_rate seconds later or more is admitted
C4_DrainThenRefill ==
  \A p \in Procs :
    (/\ ConsReturned(p) /\ cons[p].tokens = 1 /\ cons[p].quiet
     /\ cons[p].spent = tbcfg.capacity)
    => /\ (cons[p].instant => ~cons[p].success)
       /\ (cons[p].waited => cons[p].success)

\* the keys of one gate evaluation, in the order of precedence
GateOrder(p) ==
  <<IpKey(req[p].ip, "minute"), IpKey(req[p].ip, "hour")>>
    \o (IF req[p].user = None THEN <<>>
        ELSE <<UserKey(req[p].user, "minute"), UserKey(req[p].user, "hour")>>)

\* C5: the keys a gate evaluation has run a check on are, at every moment,
\* an initial part of IP per-minute, IP per-hour, user per-minute, user
\* per-hour, and every check but the last one of them was allowed: after a
\* denial no later check runs
C5_GatePrecedence ==
  \A p \in Procs :
    req[p].pc # "idle" =>
      /\ Len(touched[p]) <= Len(GateOrder(p))
      /\ \A i \in 1..Len(touched[p]) :
           /\ touched[p][i].key = GateOrder(p)[i]
           /\ (i < Len(touched[p]) => touched[p][i].allowed)

\* an authenticated request was rejected by an IP-level check
C5_Witness ==
  \E p \in Procs :
    /\ req[p].pc = "rejected" /\ req[p].user # None
    /\ Len(touched[p]) <= 2
    /\ ~touched[p][Len(touched[p])].allowed

AllTimedOut ==
  /\ inv.pc = "done"
  /\ Len(inv.log) >= 1
  /\ \A i \in 1..Len(inv.log) : inv.log[i].kind = "timeout"

\* a 2xx answer that is an object without an error key and with a payload
SuccessBody(o) ==
  /\ o.kind = "response" /\ o.status = 200 /\ o.body.json = "object"
  /\ o.body.error.kind = "absent"
  /\ (o.body.content # Absent \/ o.body.result # Absent)

TimeoutsThenSuccess ==
  /\ inv.pc = "done" /\ inv.max_retries = 3 /\ Len(inv.log) = 3
  /\ inv.log[1].kind = "timeout" /\ inv.log[2].kind = "timeout"
  /\ SuccessBody(inv.log[3])

\* C6: with 3 retries, timeouts on attempts 1 and 2 and a success body on
\* attempt 3 give success = true with the payload of the third answer
C6_ThirdAttemptSucceeds ==
  TimeoutsThenSuccess =>
    /\ inv.result.success
    /\ inv.result.result = (IF inv.log[3].body.content # Absent
                            THEN inv.log[3].body.content
                            ELSE inv.log[3].body.result)

C6_Witness == TimeoutsThenSuccess /\ inv.result.result = "p2"

\* C7: never more than max_retries attempts are dispatched, and when every
\* attempt timed out exactly max_retries were and the result is a failure
C7_ExactlyMaxRetries ==
  /\ inv.dispatched <= inv.max_retries
  /\ AllTimedOut => (inv.dispatched = inv.max_retries /\ ~inv.result.success)

C7_Witness == AllTimedOut /\ inv.max_retries = 3 /\ inv.dispatched = 3

AppError(o) ==
  /\ o.kind = "response" /\ o.status = 200 /\ o.body.json = "object"
  /\ o.body.error.kind = "dict" /\ o.body.error.message # Absent

\* C9: an answer with an error object ends the invocation at once: it is
\* the last attempt dispatched, the result is a failure, and its error is
\* the message of the error object, unchanged
C9_ErrorPassthrough ==
  \A i \in 1..Len(inv.log) :
    AppError(inv.log[i]) =>
      /\ i = Len(inv.log) /\ inv.dispatched = i /\ inv.pc = "done"
      /\ ~inv.result.success
      /\ inv.result.error = inv.log[i].body.error.message

\* an application error on the second of three attempts
C9_Witness ==
  /\ inv.pc = "done" /\ inv.max_retries = 3 /\ Len(inv.log) = 2
  /\ AppError(inv.log[2]) /\ inv.result.error = "quota exceeded"

\* the discovery call failed: no answer, a non-2xx status, a body that is
\* not JSON, or a body that is not {"tools": [objects]}
DiscoveryFailed(o) ==
  \/ o.kind \in {"timeout", "transport"}
  \/ o.status \notin 200..299
  \/ o.json # "object"
  \/ o.tools # "list"
  \/ \E i \in 1..Len(o.items) : o.items[i].kind # "object"

ChangedFields ==
  {f \in {"endpoint", "method", "body", "timestamp"} : sgn.shown[f] # sgn.signed[f]}

SameSecret == sgn.secret = sgn.verifier_secret

\* C11: verify_signature returns true for the tuple that sign_request
\* signed, with the signature it produced, under the same secret
C11_SignatureRoundTrip ==
  (sgn.pc = "verified" /\ SameSecret /\ ChangedFields = {}) => sgn.verdict

\* a request whose timestamp and body hold the separator was verified
C11_Witness ==
  /\ sgn.pc = "verified" /\ SameSecret /\ ChangedFields = {}
  /\ sgn.signed.timestamp = "1700000000\n" /\ sgn.signed.body = "\n{}"
  /\ sgn.verdict

\* C12: when exactly one of method, endpoint, timestamp and body was
\* changed after signing, verify_signature returns false
C12_TamperDetected ==
  (sgn.pc = "verified" /\ SameSecret /\ Cardinality(ChangedFields) = 1)
     => ~sgn.verdict

\* only the timestamp was changed, by appending the separator, and the
\* signature was refused
C12_Witness ==
  /\ sgn.pc = "verified" /\ SameSecret /\ ChangedFields = {"timestamp"}
  /\ sgn.signed.timestamp = "1700000000" /\ sgn.shown.timestamp = "1700000000\n"
  /\ ~sgn.verdict

\* the pipeline of the call has run: its count and its info are known
Counted(p) == call[p].stage = "direct" /\ call[p].pc \in {"zrem", "ret"}

\* C13: the remaining reported by an is_allowed check is
\* max(0, limit - count - 1) when the check is admitted and
\* max(0, limit - count) when it is denied, and it is never negative
C13_Remaining ==
  \A p \in Procs :
    Counted(p) =>
      /\ call[p].info.remaining =
           (IF call[p].allowed THEN Max(0, call[p].limit - call[p].count - 1)
            ELSE Max(0, call[p].limit - call[p].count))
      /\ call[p].info.remaining >= 0

\* one call was admitted, and another was denied after it had counted
\* more entries than the limit
C13_Witness ==
  \E p, q \in Procs :
    /\ Counted(p) /\ call[p].allowed /\ call[p].info.remaining = 0
    /\ Counted(q) /\ ~call[q].allowed /\ call[q].count > call[q].limit
    /\ call[q].info.remaining = 0

\* C14: the token count stored for the bucket is never above the capacity
\* and never below zero, whatever consume calls (requests for 0 tokens and
\* overlapping calls included) have run
C14_StoredWithinCapacity ==
  \A t \in bucket.tokens : 0 <= t /\ t <= Units(tbcfg.capacity)

\* the bucket was drained, more time passed than it takes to refill it,
\* and a call then stored the full capacity
C14_Witness ==
  /\ bucket.tokens = {Units(tbcfg.capacity)}
  /\ SumSpent(Procs) >= tbcfg.capacity
  /\ \E p \in Procs :
       /\ cons[p].pc = "ret" /\ cons[p].success /\ cons[p].tokens = 0
       /\ cons[p].now > tbcfg.capacity * tbcfg.period
       /\ bucket.last = {cons[p].now}

Failed == inv.pc = "done" /\ ~inv.result.success

\* C15: every ToolResult returned with success = false carries a non-empty
\* error message
C15_NonEmptyError ==
  Failed => inv.result.error \notin {"", NoneVal}

\* C16: every invoke_tool call ends with a returned ToolResult, no
\* exception ever leaves it, and it never dispatches more than max_retries
\* attempts
C16_AlwaysReturns ==
  /\ <>(inv.pc = "done")
  /\ [](~inv.raised /\ inv.dispatched <= inv.max_retries)

\* two timeouts were followed by a body that is not JSON, and the call
\* returned a failed ToolResult
C16_Witness ==
  /\ inv.pc = "done" /\ ~inv.raised /\ inv.dispatched = 3
  /\ inv.log[3].kind = "response" /\ inv.log[3].status = 200
  /\ inv.log[3].body.json = "invalid"
  /\ ~inv.result.success

\* C17: a gate evaluation never ends with a raised error: it ends with the
\* request passed or rejected, also when the store is not connected or a
\* store operation fails
C17_AlwaysDecides ==
  \A p \in Procs : req[p].pc # "error"

\* the setting that limits a stage of the gate
StageLimit(stage) ==
  CASE stage = "ip_minute"   -> settings.ip_minute
    [] stage = "ip_hour"     -> settings.ip_hour
    [] stage = "user_minute" -> settings.user_minute
    [] stage = "user_hour"   -> settings.user_hour

StageWindow(stage) == IF stage \in {"ip_minute", "user_minute"} THEN 60 ELSE 3600

\* C18: a rejection is raised for the first denied check of the evaluation
\* (every check before it was allowed) and carries that check's limit, its
\* remaining, its reset time and, as Retry-After, its window: 60 for a
\* per-minute check, 3600 for a per-hour check
C18_DenialHeaders ==
  [][\A p \in Procs :
       (req[p].pc = "running" /\ req'[p].pc = "rejected") =>
          LET c == call[p]
              n == Len(touched[p])
          IN /\ c.pc = "ret" /\ ~c.allowed
             /\ n >= 1 /\ touched[p][n].key = c.key /\ ~touched[p][n].allowed
             /\ \A i \in 1..(n - 1) : touched[p][i].allowed
             /\ req'[p].headers.limit = Str(StageLimit(c.stage))
             /\ req'[p].headers.remaining = Str(c.info.remaining)
             /\ req'[p].headers.reset = Str(c.now + StageWindow(c.stage))
             /\ req'[p].headers.retry_after = Str(StageWindow(c.stage))]_vars

\* an authenticated request was rejected by the user per-hour check, after
\* three allowed checks, some time after the first request
C18_Witness ==
  \E p \in Procs :
    /\ req[p].pc = "rejected" /\ req[p].user # None
    /\ Len(touched[p]) = 4
    /\ req[p].headers.retry_after = "3600"
    /\ req[p].headers.remaining = "0"
    /\ req[p].headers.reset = "3601"

\* the handler called invoke_tool and has finished
ToolAnswered == chat.entry = "external" /\ chat.pc \in {"ok", "error"}

\* C19: whatever invoke_tool returned, the handler stores an assistant
\* message and answers with a successful response
C19_AlwaysAnswers ==
  ToolAnswered => (chat.pc = "ok" /\ chat.stored /\ chat.status = 200)

\* C20: a tool call is dispatched only after the gate has run, after its IP
\* and user checks, a tool-scoped per-minute check that admitted the request
C20_ToolCheckBeforeDispatch ==
  inv.dispatched > 0 =>
    \E i \in 1..Len(touched[ChatUser]) :
      /\ i > 4
      /\ \E u \in Users : touched[ChatUser][i].key = ToolKey("chat", u)
      /\ touched[ChatUser][i].allowed

\* every pipeline so far ran in the second in which its call took its
\* timestamp
AllPrompt == \A p \in Procs : Prompt(p)

\* the admitted calls whose timestamps lie in the interval [t, t + w)
AdmittedIn(t, w) ==
  {q \in Procs : /\ Returned(q) /\ call[q].allowed
                 /\ t <= call[q].now /\ call[q].now < t + w}

\* C21: on one key with a fixed limit and window W, the admitted checks
\* whose timestamps fall inside an interval of length W are never more than
\* the limit
C21_WindowBound ==
  AllPrompt =>
    \A p \in Procs :
      (Returned(p) /\ call[p].allowed) =>
        Cardinality(AdmittedIn(call[p].now, call[p].window)) <= call[p].limit

\* C22: the timestamp of a denied check is at no point present in the
\* event set of its key (no admitted check carries the same timestamp)
C22_DeniedNeverInserted ==
  \A p \in Procs :
    (/\ Counted(p) /\ ~call[p].allowed
     /\ \A q \in Procs \ {p} : call[q].pc # "idle" => call[q].now # call[p].now)
    => ~\E e \in zset[call[p].key] : e.member = Str(call[p].now)

\* C27: the pipeline of a check evicts exactly the entries older than
\* now - window: the count it reads is the number of entries of the key
\* whose timestamp is now - window or later
C27_BoundaryEntrySurvives ==
  [][\A p \in Procs :
       (call[p].stage = "direct" /\ call[p].pc = "pipe" /\ call'[p].pc # "pipe") =>
          call'[p].count =
            Cardinality({e \in zset[call[p].key] :
                           e.score >= call[p].now - call[p].window})]_vars

\* C23: when consume denies a request, the stored token count is afterwards
\* min(capacity, previous tokens + elapsed * refill rate) and the stored
\* last-refill time is the time of that call
C23_DeniedPersistsRefill ==
  [][\A p \in Procs :
       (cons[p].pc = "read" /\ cons'[p].pc = "ret" /\ ~cons'[p].success) =>
          /\ bucket'.tokens =
               {Min(Units(tbcfg.capacity),
                    OrDefault(bucket.tokens, Units(tbcfg.capacity))
                      + (cons[p].now - OrDefault(bucket.last, cons[p].now)))}
          /\ bucket'.last = {cons[p].now}]_vars

LastLogged == inv.log[Len(inv.log)]
Ended == inv.pc \in {"done", "raised"}

\* C24: the k-th timed-out attempt that is not the last one is followed by a
\* sleep of MCP_RETRY_DELAY * k and then by attempt k+1; nothing is slept
\* after the final attempt; a non-2xx response ends the call at once with
\* success = false, no sleep and no further attempt
C24_LinearBackoff ==
  /\ \A k \in 1..Len(inv.sleeps) :
       /\ inv.sleeps[k] = MCP_RETRY_DELAY * k
       /\ k <= Len(inv.log) /\ inv.log[k].kind = "timeout"
       /\ k < inv.max_retries
  /\ inv.pc \in {"send", "wait"} => Len(inv.sleeps) = inv.attempt
  /\ inv.pc = "sleep" => Len(inv.sleeps) = inv.attempt /\ Len(inv.log) = inv.attempt + 1
  /\ (Ended /\ Len(inv.log) > 0) => Len(inv.sleeps) = Len(inv.log) - 1
  /\ (Len(inv.log) > 0 /\ LastLogged.kind = "response" /\ LastLogged.status \notin 200..299) =>
       /\ inv.pc = "done"
       /\ ~inv.result.success
       /\ inv.dispatched = Len(inv.log)

C24_Witness ==
  /\ inv.pc = "done"
  /\ inv.sleeps = <<MCP_RETRY_DELAY, MCP_RETRY_DELAY * 2>>
  /\ Len(inv.log) = 3
  /\ LastLogged.kind = "response" /\ LastLogged.status = 500

\* C25: a transport failure that is no timeout ends the call only when no
\* attempt remains: a call that has returned after such a failure has made
\* max_retries attempts
C25_TransportRetried ==
  (Ended /\ Len(inv.log) > 0 /\ LastLogged.kind = "transport") =>
     Len(inv.log) = inv.max_retries

Malformed(body) ==
  \/ body.json # "object"
  \/ /\ body.content = Absent /\ body.result = Absent
     /\ body.error.kind = "absent"

\* C26: a 2xx answer whose body is not valid JSON, is not an object, or is
\* an object with none of the keys content, result, error gives a failed
\* result with an error message, never a success and never an exception
C26_MalformedFails ==
  (/\ Ended /\ Len(inv.log) > 0
   /\ LastLogged.kind = "response" /\ LastLogged.status \in 200..299
   /\ Malformed(LastLogged.body)) =>
     /\ inv.pc = "done" /\ ~inv.raised
     /\ ~inv.result.success
     /\ inv.result.error # NoneVal

\* time.time() when attempt k (counted from 1) is dispatched: the start
\* plus the timeouts and the sleeps of the attempts before it
AttemptTime(k) ==
  inv.start_time + (k - 1) * MCP_DEFAULT_TIMEOUT + MCP_RETRY_DELAY * (((k - 1) * k) \div 2)

\* C28: every attempt that is dispatched carries, with a credential, the
\* headers Authorization, X-MCP-Timestamp and X-MCP-Signature, the
\* signature being the HMAC under the decrypted credential of POST, the
\* endpoint, the timestamp of that attempt and the body; without a
\* credential it carries none of the three
C28_EveryAttemptSigned ==
  /\ Len(inv.sent) = inv.dispatched
  /\ \A k \in 1..Len(inv.sent) :
       IF inv.credential = "none"
       THEN /\ inv.sent[k].authorization = {}
            /\ inv.sent[k].timestamp = {}
            /\ inv.sent[k].signature = {}
       ELSE /\ inv.sent[k].authorization = {"Bearer " \o decrypt_value(inv.credential)}
            /\ inv.sent[k].timestamp = {Str(AttemptTime(k))}
            /\ inv.sent[k].signature =
                 {HmacSha256(decrypt_value(inv.credential),
                             "POST\n" \o McpEndpoint \o "\n" \o Str(AttemptTime(k))
                               \o "\n" \o ToolCallBody)}

C28_Witness ==
  /\ inv.credential = "good"
  /\ inv.dispatched = 3
  /\ inv.sent[3].timestamp = {"63"}
  /\ inv.sent[1].timestamp = {"0"}

\* C30: with a credential that does not decrypt, invoke_tool dispatches
\* nothing and returns success = false from its first attempt, without a
\* retry or a sleep; discover_tools dispatches nothing and returns the
\* empty list; neither raises
C30_CorruptCredentialStopsCall ==
  /\ inv.credential = "corrupt" =>
       /\ inv.dispatched = 0 /\ inv.sent = <<>> /\ inv.log = <<>>
       /\ inv.pc # "raised" /\ ~inv.raised
       /\ inv.attempt = 0 /\ inv.sleeps = <<>>
       /\ inv.pc = "done" => ~inv.result.success /\ inv.result.error # NoneVal
  /\ disc.credential = "corrupt" =>
       /\ disc.pc = "done"
       /\ disc.outcome = NoOutcome
       /\ disc.tools = <<>>
       /\ ~disc.raised

C30_Witness ==
  /\ inv.credential = "corrupt" /\ inv.max_retries = MCP_MAX_RETRIES
  /\ inv.pc = "done"
  /\ inv.result = ToolResult(FALSE, NoneVal, "InvalidToken")
  /\ disc.credential = "corrupt" /\ disc.pc = "done"

KeyWindow(k) ==
  IF k \in {IpKey(ip, "minute") : ip \in Ips} \cup {UserKey(u, "minute") : u \in Users}
  THEN WINDOW_MINUTE ELSE WINDOW_HOUR

HasEvent(k, t) == \E e \in zset[k] : e.member = Str(t)

\* C29: a request that the per-minute IP check admitted and a later check
\* denied keeps, while the window lasts, the event it inserted under every
\* key checked before the denying one; the denying check leaves no event of
\* the request under its key when it returns; the keys after it are not
\* touched
C29_EarlierQuotaStays ==
  /\ [](\A p \in Procs :
          (req[p].pc = "rejected" /\ Len(touched[p]) >= 2) =>
             LET n == Len(touched[p])
             IN /\ n <= Len(GateOrder(p))
                /\ \A i \in 1..n : touched[p][i].key = GateOrder(p)[i]
                /\ ~touched[p][n].allowed
                /\ \A i \in 1..(n - 1) :
                     /\ touched[p][i].allowed
                     /\ clock < touched[p][i].now + KeyWindow(touched[p][i].key)
                          => HasEvent(touched[p][i].key, touched[p][i].now))
  /\ [][\A p \in Procs :
          (call[p].stage # "direct" /\ call[p].pc \in {"pipe", "zrem"}
             /\ call'[p].pc = "ret" /\ ~call'[p].allowed)
          => ~\E e \in zset'[call[p].key] : e.member = Str(call[p].now)]_vars

====
